---------------------------- MODULE Spec2Model ----------------------------
(***************************************************************************)
(* Model of the music-jobs watcher: the run() orchestrators of scraper.py  *)
(* and music_scraper.py, and the persistence helpers of utils.py           *)
(* (load_seen, save_seen, ensure_csv, append_csv, mk_row, _normalize_url). *)
(*                                                                         *)
(* Python strings are sequences of one-character strings, so that the      *)
(* "::"-joined identity key, sorted() and urlparse()/urlunparse() are      *)
(* computed the way the code computes them.                                *)
(***************************************************************************)
EXTENDS Integers, Sequences, FiniteSets, TLC

(***************************************************************************)
(* Bounds of the model.                                                    *)
(***************************************************************************)
\* number of runs of the program in one behaviour
MaxRuns == 2

(***************************************************************************)
(* Strings.                                                                *)
(***************************************************************************)
\* the characters of the model, in ascending code-point order
CodeOrder == <<"#", "+", "/", "1", "2", ":", ";", "?", "[",
               "a", "b", "d", "e", "g", "h", "k", "l", "n", "o", "p",
               "r", "s", "t", "u", "v", "w", "x">>

Ord == [c \in {CodeOrder[i] : i \in DOMAIN CodeOrder} |->
          CHOOSE i \in DOMAIN CodeOrder : CodeOrder[i] = c]

\* str.__lt__: lexicographic order by code point, a proper prefix first
RECURSIVE StrLess(_, _)
StrLess(a, b) ==
  IF b = <<>> THEN FALSE
  ELSE IF a = <<>> THEN TRUE
  ELSE IF Head(a) = Head(b) THEN StrLess(Tail(a), Tail(b))
  ELSE Ord[Head(a)] < Ord[Head(b)]

\* sorted(list(S)) for a set of strings
RECURSIVE Sorted(_)
Sorted(S) ==
  IF S = {} THEN <<>>
  ELSE LET m == CHOOSE x \in S : \A y \in S : x = y \/ StrLess(x, y)
       IN  <<m>> \o Sorted(S \ {m})

\* s.find(c, start) with 1-based positions; 0 when c does not occur
RECURSIVE Find(_, _, _)
Find(s, c, start) ==
  IF start > Len(s) THEN 0
  ELSE IF s[start] = c THEN start
  ELSE Find(s, c, start + 1)

\* s.rfind(c) with 1-based positions; 0 when c does not occur
RECURSIVE RFindFrom(_, _, _)
RFindFrom(s, c, i) ==
  IF i = 0 THEN 0
  ELSE IF s[i] = c THEN i
  ELSE RFindFrom(s, c, i - 1)

RFind(s, c) == RFindFrom(s, c, Len(s))

Contains(s, c) == Find(s, c, 1) # 0

\* s[:i-1] and s[i:] in 1-based positions
Prefix(s, i) == SubSeq(s, 1, i - 1)
Suffix(s, i) == SubSeq(s, i, Len(s))

(***************************************************************************)
(* urllib.parse as _normalize_url uses it (CPython 3.11).  The model's     *)
(* alphabet has no upper-case letter, white space or control character,    *)
(* so lower() and the stripping of such characters change nothing.         *)
(***************************************************************************)
Letters == {"a", "b", "d", "e", "g", "h", "k", "l", "n", "o", "p", "r",
            "s", "t", "u", "v", "w", "x"}
scheme_chars == Letters \cup {"1", "2", "+"}

http  == <<"h", "t", "t", "p">>
https == <<"h", "t", "t", "p", "s">>
\* the schemes of uses_netloc and uses_params that the alphabet can spell
uses_netloc == {<<>>, http, https}
uses_params == {<<>>, http, https}

\* _splitnetloc(url, 2): the position of the first of "/?#" at or after 3,
\* Len(url)+1 when there is none
_splitnetloc_end(url) ==
  LET ps == {p \in {Find(url, "/", 3), Find(url, "?", 3), Find(url, "#", 3)} : p # 0}
  IN  IF ps = {} THEN Len(url) + 1
      ELSE CHOOSE p \in ps : \A q \in ps : p <= q

\* _splitparams(url): the path without its ";params"
_splitparams(url) ==
  LET i == IF Contains(url, "/")
           THEN Find(url, ";", RFind(url, "/"))
           ELSE Find(url, ";", 1)
  IN  IF i = 0 THEN url ELSE Prefix(url, i)

\* urlparse(u): ok = FALSE stands for the ValueError of an unbalanced "["
urlparse(u) ==
  LET i == Find(u, ":", 1)
      hasScheme == /\ i > 1
                   /\ u[1] \in Letters
                   /\ \A k \in 1..(i - 1) : u[k] \in scheme_chars
      scheme == IF hasScheme THEN Prefix(u, i) ELSE <<>>
      r1 == IF hasScheme THEN Suffix(u, i + 1) ELSE u
      hasNetloc == Len(r1) >= 2 /\ r1[1] = "/" /\ r1[2] = "/"
      d == _splitnetloc_end(r1)
      netloc == IF hasNetloc THEN SubSeq(r1, 3, d - 1) ELSE <<>>
      r2 == IF hasNetloc THEN Suffix(r1, d) ELSE r1
      h == Find(r2, "#", 1)
      r3 == IF h # 0 THEN Prefix(r2, h) ELSE r2
      fragment == IF h # 0 THEN Suffix(r2, h + 1) ELSE <<>>
      q == Find(r3, "?", 1)
      r4 == IF q # 0 THEN Prefix(r3, q) ELSE r3
      query == IF q # 0 THEN Suffix(r3, q + 1) ELSE <<>>
      path == IF scheme \in uses_params /\ Contains(r4, ";")
              THEN _splitparams(r4) ELSE r4
  IN  [ok |-> ~(hasNetloc /\ Contains(netloc, "[")),
       scheme |-> scheme, netloc |-> netloc, path |-> path,
       query |-> query, fragment |-> fragment]

\* urlunparse((scheme, netloc, path, "", "", ""))
urlunparse(scheme, netloc, path) ==
  LET slash == IF path # <<>> /\ path[1] # "/" THEN <<"/">> \o path ELSE path
      url == IF \/ netloc # <<>>
                \/ /\ scheme # <<>>
                   /\ scheme \in uses_netloc
                   /\ ~(Len(path) >= 2 /\ path[1] = "/" /\ path[2] = "/")
             THEN <<"/", "/">> \o netloc \o slash
             ELSE path
  IN  IF scheme # <<>> THEN scheme \o <<":">> \o url ELSE url

\* utils._normalize_url
_normalize_url(u) ==
  IF u = <<>> THEN <<>>
  ELSE LET p == urlparse(u)
       IN  IF p.ok THEN urlunparse(p.scheme, p.netloc, p.path) ELSE u


(***************************************************************************)
(* Rows (utils.mk_row) and the identity key.                               *)
(***************************************************************************)
\* Python's None, where the code accepts it in place of a string
None == <<"None">>

\* x or ""
OrEmpty(x) == IF x = None THEN <<>> ELSE x

\* normalized_now(): the clock reading as text; the clock counts the runs
\* of the program, and the text is never empty
normalized_now(clock) == [i \in 1..clock |-> "1"]

title_or_description == <<"title_or_description">>
html_text == <<"html_text">>

\* mk_row storing its arguments as they come
mk_row_raw(company, platform, title, location, job_id, url, posted_at, matched_on, clock) ==
  [company |-> company,
   platform |-> platform,
   title |-> title,
   location |-> location,
   job_id |-> job_id,
   url |-> url,
   posted_at_iso |-> posted_at,
   detected_on_iso |-> normalized_now(clock),
   matched_on |-> matched_on]

\* utils.mk_row
mk_row(company, platform, title, location, job_id, url, posted_at, matched_on, clock) ==
  [company |-> company,
   platform |-> platform,
   title |-> OrEmpty(title),
   location |-> OrEmpty(location),
   job_id |-> OrEmpty(job_id),
   url |-> _normalize_url(OrEmpty(url)),
   posted_at_iso |-> OrEmpty(posted_at),
   detected_on_iso |-> normalized_now(clock),
   matched_on |-> IF OrEmpty(matched_on) = <<>> THEN title_or_description ELSE matched_on]

(***************************************************************************)
(* utils.job_matches_music: MUSIC_PATTERN.search(text or ""), the pattern  *)
(* \bmusic\b with re.IGNORECASE, on texts of ASCII letters, digits, "_",   *)
(* blanks and hyphens.                                                     *)
(***************************************************************************)
LowerLetters == {"a", "c", "d", "e", "i", "l", "m", "n", "o", "r", "s", "t",
                 "u", "y"}
UpperLetters == {"C", "D", "I", "M", "S", "U"}

\* \w
WordChars == LowerLetters \cup UpperLetters \cup {"1", "_"}

\* the lower-case form the pattern's letters are compared with
Lower(ch) ==
  CASE ch = "C" -> "c"
    [] ch = "D" -> "d"
    [] ch = "I" -> "i"
    [] ch = "M" -> "m"
    [] ch = "S" -> "s"
    [] ch = "U" -> "u"
    [] OTHER -> ch

music == <<"m", "u", "s", "i", "c">>

\* \b before position i (1..Len+1): a word character on exactly one side
WordBoundary(text, i) ==
  (i > 1 /\ text[i - 1] \in WordChars) # (i <= Len(text) /\ text[i] \in WordChars)

\* the pattern matches at position i
MatchAt(text, i) ==
  /\ i + Len(music) - 1 <= Len(text)
  /\ WordBoundary(text, i)
  /\ \A k \in DOMAIN music : Lower(text[i + k - 1]) = music[k]
  /\ WordBoundary(text, i + Len(music))

\* the pattern without its \b
job_matches_music_anywhere(text) ==
  \E i \in DOMAIN OrEmpty(text) :
     /\ i + Len(music) - 1 <= Len(OrEmpty(text))
     /\ \A k \in DOMAIN music : Lower(OrEmpty(text)[i + k - 1]) = music[k]

\* utils.job_matches_music
job_matches_music(text) ==
  \E i \in DOMAIN OrEmpty(text) : MatchAt(OrEmpty(text), i)

Sep == <<":", ":">>

\* an identity that takes the title in
Key_with_title(j) ==
  j.platform \o Sep \o j.company \o Sep \o j.job_id \o Sep \o j.url \o Sep \o j.title

\* an identity of job_id and url alone
Key_job_url(j) == j.job_id \o Sep \o j.url

\* key = f"{j['platform']}::{j['company']}::{j['job_id']}::{j['url']}"
Key(j) == j.platform \o Sep \o j.company \o Sep \o j.job_id \o Sep \o j.url

(***************************************************************************)
(* The Sink, music_jobs.csv: whether the file exists, and its records.     *)
(***************************************************************************)
CSV_HEADERS == << <<"company">>, <<"platform">>, <<"title">>, <<"location">>,
                  <<"job_id">>, <<"url">>, <<"posted_at_iso">>,
                  <<"detected_on_iso">>, <<"matched_on">> >>

\* ensure_csv writing the header whenever it is called
ensure_csv_always(f) == [exists |-> TRUE, recs |-> <<CSV_HEADERS>>]

\* utils.ensure_csv
ensure_csv(f) ==
  IF ~f.exists \/ f.recs = <<>>
  THEN [exists |-> TRUE, recs |-> <<CSV_HEADERS>>]
  ELSE f

\* append_csv opening the file with mode "w"
append_csv_rewriting(f, row) ==
  [exists |-> TRUE,
   recs |-> <<CSV_HEADERS,
              <<row.company, row.platform, row.title, row.location, row.job_id,
                _normalize_url(row.url), row.posted_at_iso,
                row.detected_on_iso, row.matched_on>> >>]

\* utils.append_csv: one record, the columns in CSV_HEADERS order, the url
\* normalized again
append_csv(f, row) ==
  LET g == ensure_csv(f)
      rec == <<row.company, row.platform, row.title, row.location, row.job_id,
               _normalize_url(row.url), row.posted_at_iso, row.detected_on_iso,
               row.matched_on>>
  IN  [g EXCEPT !.recs = Append(g.recs, rec)]

\* the identity key of a record of the Sink, from its columns
RecKey(rec) == rec[2] \o Sep \o rec[1] \o Sep \o rec[5] \o Sep \o rec[6]

(***************************************************************************)
(* The persisted Seen Set, seen_music.json.  kind is                       *)
(*   "missing"     no such file                                            *)
(*   "unreadable"  the path exists and open() fails (no permission, a      *)
(*                 directory)                                              *)
(*   "malformed"   text that is not JSON                                   *)
(*   "truncated"   the file as open(.., "w") leaves it until json.dump has *)
(*                 written all of the list: empty, or a prefix of it       *)
(*   "object"      a JSON document that is not a list                      *)
(*   "list"        a JSON list; an item is a string [t |-> "str", s |-> k] *)
(*                 or a nested list [t |-> "list", s |-> <<>>]             *)
(***************************************************************************)
StrItem(k) == [t |-> "str", s |-> k]
ListItem == [t |-> "list", s |-> <<>>]

FileOf(kind, items) == [kind |-> kind, items |-> items]

\* load_seen reading another path than save_seen writes: never any state
load_seen_fresh(f) == [raised |-> FALSE, seen |-> {}]

\* utils.load_seen: [raised |-> TRUE] when the exception leaves load_seen;
\* set(data) raises TypeError on an unhashable item, inside the try
load_seen(f) ==
  IF f.kind = "missing" THEN [raised |-> FALSE, seen |-> {}]
  ELSE IF f.kind = "unreadable" THEN [raised |-> TRUE, seen |-> {}]
  ELSE IF f.kind = "list" /\ \A i \in DOMAIN f.items : f.items[i].t = "str"
       THEN [raised |-> FALSE, seen |-> {f.items[i].s : i \in DOMAIN f.items}]
  ELSE [raised |-> FALSE, seen |-> {}]

\* utils.save_seen, first half: open(SEEN_PATH, "w") truncates the file
save_seen_open(f) == FileOf("truncated", <<>>)

\* json.dump(list(seen)) without sorted(): here the descending order
save_seen_dump_unsorted(seen) ==
  LET l == Sorted(seen)
  IN  FileOf("list", [i \in DOMAIN l |-> StrItem(l[Len(l) + 1 - i])])

\* utils.save_seen, second half: json.dump(sorted(list(seen)), f, indent=2)
save_seen_dump(seen) ==
  LET l == Sorted(seen)
  IN  FileOf("list", [i \in DOMAIN l |-> StrItem(l[i])])

\* the keys the stored Seen Set holds: those of a JSON list of strings; any
\* other content is no Seen Set and holds none
StoredKeys(f) ==
  IF f.kind = "list" /\ \A i \in DOMAIN f.items : f.items[i].t = "str"
  THEN {f.items[i].s : i \in DOMAIN f.items}
  ELSE {}

(***************************************************************************)
(* Configuration (companies.yaml) and the targets a run fetches.           *)
(***************************************************************************)
greenhouse == <<"g", "r", "e", "e", "n", "h", "o", "u", "s", "e">>
lever      == <<"l", "e", "v", "e", "r">>
adp        == <<"a", "d", "p">>
unknown    == <<"u", "n", "k", "n", "o", "w", "n">>

\* an entry of a platform's list: a bare slug, or a descriptor map
Slug(s) == [type |-> "str", slug |-> s, company |-> None, host |-> None]
Desc(c, h) == [type |-> "dict", slug |-> None, company |-> c, host |-> h]

\* scraper.py: FETCHERS and DICT_FETCHERS, in iteration order (of the
\* descriptor platforms the model has the adapter of adp)
LIST_PLATFORMS == <<greenhouse, lever>>
DICT_PLATFORMS == <<adp>>

\* the concatenation of a sequence of sequences
RECURSIVE Flat(_)
Flat(ss) == IF ss = <<>> THEN <<>> ELSE Head(ss) \o Flat(Tail(ss))

\* cfg.get(plat) or [], and [] when plat is not in cfg; cfg is the parsed
\* mapping as the sequence of its items
CfgGet(cfg, plat) ==
  LET hits == SelectSeq(cfg, LAMBDA it : it.plat = plat)
  IN  IF hits = <<>> THEN <<>> ELSE hits[1].targets

\* x or y
Or(x, y) == IF OrEmpty(x) = <<>> THEN y ELSE x

\* cname = entry.get("company") or entry.get("tenant") or entry.get("host") or "unknown"
cname(e) == Or(e.company, Or(e.host, unknown))

\* scraper.py, first loop: the slugs of one list platform that are fetched;
\* FETCHERS of scraper.py holds the functions of adapters.py
ScraperSlugs(cfg, plat, pf, cf) ==
  IF pf # None /\ pf # plat THEN <<>>
  ELSE LET keep == SelectSeq(CfgGet(cfg, plat),
                     LAMBDA e : /\ e.type = "str"
                                /\ e.slug # <<>>
                                /\ (OrEmpty(cf) = <<>> \/ e.slug = cf))
       IN  [i \in DOMAIN keep |->
              [plat |-> plat, entry |-> keep[i], fetcher |-> "adapters"]]

\* --company ignored in the second loop
ScraperEntries_unfiltered(cfg, plat, pf, cf) ==
  IF pf # None /\ pf # plat THEN <<>>
  ELSE LET keep == SelectSeq(CfgGet(cfg, plat), LAMBDA e : e.type = "dict")
       IN  [i \in DOMAIN keep |->
              [plat |-> plat, entry |-> keep[i], fetcher |-> "adapters"]]

\* scraper.py, second loop: the descriptors of one platform that are fetched
\* (the descriptors of the model have no "tenant")
ScraperEntries(cfg, plat, pf, cf) ==
  IF pf # None /\ pf # plat THEN <<>>
  ELSE LET keep == SelectSeq(CfgGet(cfg, plat),
                     LAMBDA e : /\ e.type = "dict"
                                /\ (OrEmpty(cf) = <<>> \/ cf \in {cname(e), e.host}))
       IN  [i \in DOMAIN keep |->
              [plat |-> plat, entry |-> keep[i], fetcher |-> "adapters"]]

\* scraper.run: the adapter calls of a run, in order
ScraperTargets(cfg, pf, cf) ==
  Flat([i \in DOMAIN LIST_PLATFORMS |-> ScraperSlugs(cfg, LIST_PLATFORMS[i], pf, cf)])
  \o Flat([i \in DOMAIN DICT_PLATFORMS |-> ScraperEntries(cfg, DICT_PLATFORMS[i], pf, cf)])

\* music_scraper._slugify on a bare string: None for "" and for a comment
_slugify(v) == IF v = <<>> \/ v[1] = "#" THEN None ELSE v

\* music_scraper.run: the slugs of one item of cfg that are fetched, with
\* the functions of music_scraper.py itself (the
\* lists of greenhouse and lever hold bare strings in the configurations of
\* the model; str() of another value is not modelled)
MusicSlugs(it, pf, cf) ==
  IF it.plat \notin {greenhouse, lever} THEN <<>>
  ELSE IF pf # None /\ it.plat # pf THEN <<>>
  ELSE LET keep == SelectSeq(it.targets,
                     LAMBDA e : /\ e.type = "str"
                                /\ _slugify(e.slug) # None
                                /\ (OrEmpty(cf) = <<>> \/ e.slug = cf))
       IN  [i \in DOMAIN keep |->
              [plat |-> it.plat, entry |-> keep[i], fetcher |-> "music_scraper"]]

\* music_scraper.run: the adapter calls of a run, in the order of cfg.items()
MusicTargets(cfg, pf, cf) ==
  Flat([i \in DOMAIN cfg |-> MusicSlugs(cfg[i], pf, cf)])

Targets(script, cfg, pf, cf) ==
  IF script = "scraper" THEN ScraperTargets(cfg, pf, cf)
  ELSE MusicTargets(cfg, pf, cf)

(***************************************************************************)
(* Upstream boards and the adapters.  A posting is what the upstream       *)
(* shows of a job: a title, the platform's id and the link.                *)
(***************************************************************************)
slugA == <<"a">>
slugB == <<"b">>
hostX == <<"x">>
hostH == <<"h">>

\* https://x/1 with two tracking tags, ?u and ?v, and https://x/2
Url1  == https \o <<":", "/", "/", "x", "/", "1">>
Url1u == Url1 \o <<"?", "u">>
Url1v == Url1 \o <<"?", "v">>
Url2  == https \o <<":", "/", "/", "x", "/", "2">>

Post(t, id, u) == [title |-> t, id |-> id, url |-> u]

\* the postings the board behind a target can show, in the board's order:
\* the first two are one job seen with two titles and two tracking tags;
\* the pages behind host x show it under the second title only
Board(t) ==
  IF cname(t.entry) = slugB \/ t.entry.slug = slugB
  THEN << Post(<<"t">>, <<"2">>, Url2) >>
  ELSE IF t.entry.host = hostX
  THEN << Post(<<"v">>, <<"1">>, Url1u), Post(<<"v">>, <<"1">>, Url1v) >>
  ELSE << Post(<<"t">>, <<"1">>, Url1u), Post(<<"v">>, <<"1">>, Url1v) >>

\* the subsequence of s at the positions I
RECURSIVE Pick(_, _)
Pick(s, I) ==
  IF s = <<>> THEN <<>>
  ELSE LET rest == Pick(Tail(s), {i - 1 : i \in I \ {1}})
       IN  IF 1 \in I THEN <<Head(s)>> \o rest ELSE rest

\* what a fetch can find: the postings on the board at that moment
Listings(t) == {Pick(Board(t), I) : I \in SUBSET DOMAIN Board(t)}

\* fetch_greenhouse, fetch_lever: a row per matching posting
fetch_slug(plat, slug, listing, clock) ==
  [i \in DOMAIN listing |->
     mk_row(slug, plat, listing[i].title, <<>>, listing[i].id, listing[i].url,
           <<>>, title_or_description, clock)]

\* fetch_adp: company is the entry's company or its host; the link is the
\* job_id too; nothing without a host
fetch_adp(entry, listing, clock) ==
  IF OrEmpty(entry.host) = <<>> THEN <<>>
  ELSE [i \in DOMAIN listing |->
          mk_row(Or(entry.company, entry.host), adp, listing[i].title, <<>>,
                listing[i].url, listing[i].url, <<>>, html_text, clock)]

\* the company in the rows of a target: the slug, or the descriptor's
\* company or host
RowCompany(t) ==
  IF t.entry.type = "str" THEN t.entry.slug
  ELSE Or(t.entry.company, t.entry.host)

\* FETCHERS[plat](slug.strip()) and fetcher(entry)
Fetch(t, listing, clock) ==
  IF t.entry.type = "str" THEN fetch_slug(t.plat, t.entry.slug, listing, clock)
  ELSE fetch_adp(t.entry, listing, clock)

\* what the upstream answers to the adapter's request: the postings, or
\* an HTTP status >= 400, or no answer in time (SESSION.get raises), or a
\* body that does not parse, or a body that parses into something of
\* another shape than the adapter reads (a posting that is no object, a
\* link that requests cannot open)
Response(kind, listing) == [kind |-> kind, listing |-> listing]

OrdinaryFailures == {"http_error", "timeout", "bad_json"}

Responses(t) ==
  {Response("ok", l) : l \in Listings(t)}
  \cup {Response(k, <<>>) : k \in OrdinaryFailures \cup {"unexpected"}}

\* music_scraper._safe_get: None (kind "none") for a status >= 400 and for
\* any exception of SESSION.get, the response otherwise
_safe_get(resp) ==
  IF resp.kind \in {"http_error", "timeout"} THEN Response("none", <<>>)
  ELSE resp

\* whether the adapter call of target t raises on this answer.  The
\* functions of adapters.py call SESSION.get outside any try; those of
\* music_scraper.py go through _safe_get; fetch_adp returns before any
\* request when the entry has no host.
AdapterRaises(t, resp) ==
  IF t.entry.type = "dict" /\ OrEmpty(t.entry.host) = <<>> THEN FALSE
  ELSE IF t.fetcher = "music_scraper"
       THEN _safe_get(resp).kind = "unexpected"
       ELSE resp.kind \in {"timeout", "unexpected"}

\* the rows the adapter call returns when it does not raise: [] after a
\* status >= 400 and after invalid JSON
AdapterRows(t, resp, clock) ==
  IF resp.kind = "ok" THEN Fetch(t, resp.listing, clock) ELSE <<>>

\* the outcomes an adapter call can have: it raises, or it returns rows
Outcomes(t, clock) ==
  {[raised |-> AdapterRaises(t, resp),
    rows |-> IF AdapterRaises(t, resp) THEN <<>> ELSE AdapterRows(t, resp, clock)] :
     resp \in Responses(t)}

\* one outcome for every adapter call of a plan
RECURSIVE PlanOutcomes(_, _)
PlanOutcomes(p, clock) ==
  IF p = <<>> THEN {<<>>}
  ELSE {<<o>> \o rest : o \in Outcomes(Head(p), clock),
                        rest \in PlanOutcomes(Tail(p), clock)}

\* for j in jobs: the Seen Set after the rows and the rows appended, when
\* the loop starts with the Seen Set S
RECURSIVE RowLoop(_, _)
RowLoop(S, rows) ==
  IF rows = <<>> THEN [seen |-> S, new |-> <<>>]
  ELSE LET j == Head(rows)
           r == RowLoop(S \cup {Key(j)}, Tail(rows))
       IN  IF Key(j) \in S THEN r
           ELSE [seen |-> r.seen, new |-> <<j>> \o r.new]

\* every target starts from the Seen Set the run loaded, and the keys of
\* the targets before it are forgotten
RECURSIVE TargetLoop_fresh(_, _)
TargetLoop_fresh(S, outs) ==
  IF outs = <<>> THEN [seen |-> S, new |-> <<>>]
  ELSE LET r == RowLoop(S, Head(outs).rows)
           rest == TargetLoop_fresh(S, Tail(outs))
       IN  [seen |-> IF Tail(outs) = <<>> THEN r.seen ELSE rest.seen,
            new |-> <<r.new>> \o rest.new]

\* the loops over the targets, given the outcome of every adapter call: a
\* raising call adds nothing.  new[i] holds the rows appended for target i.
RECURSIVE TargetLoop(_, _)
TargetLoop(S, outs) ==
  IF outs = <<>> THEN [seen |-> S, new |-> <<>>]
  ELSE LET r == RowLoop(S, Head(outs).rows)
           rest == TargetLoop(r.seen, Tail(outs))
       IN  [seen |-> rest.seen, new |-> <<r.new>> \o rest.new]

(***************************************************************************)
(* The configurations and filters of the model.                            *)
(***************************************************************************)
Item(plat, targets) == [plat |-> plat, targets |-> targets]

Configs ==
  { << Item(lever, <<Slug(slugA), Slug(slugB)>>) >>,
    << Item(lever, <<Slug(slugA), Slug(slugA)>>) >>,
    << Item(lever, <<Slug(slugA)>>), Item(greenhouse, <<Slug(slugA)>>) >>,
    << Item(adp, <<Desc(slugA, hostH), Desc(slugA, hostX)>>) >> }

\* --platform and --company: absent, or a name
PlatformFilters == {None, lever}
CompanyFilters == {None, slugB, hostX}

(***************************************************************************)
(* State.                                                                  *)
(***************************************************************************)
VARIABLES
  cfgFile,    \* companies.yaml: [exists, cfg]
  seenFile,   \* seen_music.json
  csv,        \* music_jobs.csv
  results,    \* how each run so far ended: "ok" (return 0), "no_config"
              \* (return 2), "exception" (an uncaught error), "killed"
  pc,         \* where run() stands
  plan,       \* the adapter calls the loops of this run make, in order
  ti,         \* the position in plan of the target being processed
  jobs,       \* the rows of the current target still to be processed
  seen,       \* the in-memory Seen Set
  total_new,
  new_count,
  failed,     \* the positions in plan whose adapter raised ([WARN] lines)
  io,         \* the accesses of this run to the stored Seen Set and the
              \* adapter calls, in order
  file0,      \* seen_music.json as it was when this run started
  seen0,      \* what load_seen returned to this run
  csv0,       \* music_jobs.csv as it was when this run started
  orphans,    \* the keys of the rows the previous run appended, when that
              \* run ended without saving the Seen Set
  call,       \* a call of one of the functions of utils.py on its own: the
              \* function and its arguments
  ret         \* what the calls of that function returned, in order

vars == <<cfgFile, seenFile, csv, results, pc, plan, ti, jobs, seen, total_new,
          new_count, failed, io, file0, seen0, csv0, orphans, call, ret>>

\* the state of run()
program == <<cfgFile, seenFile, csv, results, pc, plan, ti, jobs, seen, total_new,
             new_count, failed, io, file0, seen0, csv0, orphans>>

stores == <<cfgFile, seenFile, csv>>
locals == <<plan, ti, jobs, seen, total_new, new_count, failed, io, seen0>>

\* the keys of the postings of lever:a and lever:b
K1 == lever \o Sep \o slugA \o Sep \o <<"1">> \o Sep \o Url1
K2 == lever \o Sep \o slugB \o Sep \o <<"2">> \o Sep \o Url2

\* seen_music.json before the first run
SeenFiles ==
  { FileOf("missing", <<>>),
    FileOf("unreadable", <<>>),
    FileOf("malformed", <<>>),
    FileOf("object", <<>>),
    FileOf("list", <<StrItem(K2), ListItem>>),
    FileOf("list", <<StrItem(K2), StrItem(K1), StrItem(K2)>>) }

NoCsv == [exists |-> FALSE, recs |-> <<>>]

\* a call of fn(args); no function is called on its own while run() is
\* what runs
Call(fn, args) == [fn |-> fn, args |-> args]
NoCall == Call("none", <<>>)

Init ==
  /\ cfgFile \in {[exists |-> FALSE, cfg |-> <<>>]}
                 \cup {[exists |-> TRUE, cfg |-> c] : c \in Configs}
  /\ seenFile \in SeenFiles
  /\ csv \in {NoCsv, [exists |-> TRUE, recs |-> <<>>]}
  /\ results = <<>>
  /\ pc = "idle"
  /\ plan = <<>>
  /\ ti = 0
  /\ jobs = <<>>
  /\ seen = {}
  /\ total_new = 0
  /\ new_count = 0
  /\ failed = {}
  /\ io = <<>>
  /\ file0 = seenFile
  /\ seen0 = {}
  /\ csv0 = csv
  /\ orphans = {}
  /\ call = NoCall
  /\ ret = <<>>

\* the records of the Sink that this run appended
Appended == SubSeq(csv.recs, Len(ensure_csv(csv0).recs) + 1, Len(csv.recs))
AppendedKeys == {RecKey(Appended[i]) : i \in DOMAIN Appended}

Clock == Len(results) + 1

\* save_seen inside the loop over targets
NextPc_early(i) == "save"

\* the loops go on to the next target, or to save_seen after the last
NextPc(i) == IF i > Len(plan) THEN "save" ELSE "fetch"

Running == pc \in {"load", "fetch", "rows", "append", "save", "write"}

ResetLocals ==
  /\ plan' = <<>>
  /\ ti' = 0
  /\ jobs' = <<>>
  /\ seen' = {}
  /\ total_new' = 0
  /\ new_count' = 0
  /\ failed' = {}
  /\ io' = <<>>
  /\ seen0' = {}

(***************************************************************************)
(* run()                                                                   *)
(***************************************************************************)
\* the configuration looked for after load_seen and ensure_csv
StartNoConfig_late ==
  /\ ~Running
  /\ Len(results) < MaxRuns
  /\ ~cfgFile.exists
  /\ plan' = <<>>
  /\ ti' = 0
  /\ jobs' = <<>>
  /\ seen' = {}
  /\ total_new' = 0
  /\ new_count' = 0
  /\ failed' = {}
  /\ io' = <<"load">>
  /\ seen0' = {}
  /\ file0' = seenFile
  /\ csv0' = csv
  /\ orphans' = IF pc = "crashed" THEN AppendedKeys ELSE {}
  /\ results' = Append(results, "no_config")
  /\ pc' = "done"
  /\ csv' = ensure_csv(csv)
  /\ UNCHANGED <<cfgFile, seenFile>>
  /\ UNCHANGED <<call, ret>>

\* a new process; companies.yaml is missing: return 2
StartNoConfig ==
  /\ ~Running
  /\ Len(results) < MaxRuns
  /\ ~cfgFile.exists
  /\ ResetLocals
  /\ file0' = seenFile
  /\ csv0' = csv
  /\ orphans' = IF pc = "crashed" THEN AppendedKeys ELSE {}
  /\ results' = Append(results, "no_config")
  /\ pc' = "done"
  /\ UNCHANGED stores
  /\ UNCHANGED <<call, ret>>

\* a new process; cfg is loaded and the filters select the targets
StartRun ==
  /\ ~Running
  /\ Len(results) < MaxRuns
  /\ cfgFile.exists
  /\ \E script \in {"scraper", "music_scraper"}, pf \in PlatformFilters,
        cf \in CompanyFilters :
       plan' = Targets(script, cfgFile.cfg, pf, cf)
  /\ ti' = 0
  /\ jobs' = <<>>
  /\ seen' = {}
  /\ total_new' = 0
  /\ new_count' = 0
  /\ failed' = {}
  /\ io' = <<>>
  /\ seen0' = {}
  /\ file0' = seenFile
  /\ csv0' = csv
  /\ orphans' = IF pc = "crashed" THEN AppendedKeys ELSE {}
  /\ pc' = "load"
  /\ UNCHANGED <<stores, results>>
  /\ UNCHANGED <<call, ret>>

\* seen = load_seen(); total_new = 0
Load ==
  /\ pc = "load"
  /\ ~load_seen(seenFile).raised
  /\ seen' = load_seen(seenFile).seen
  /\ seen0' = load_seen(seenFile).seen
  /\ total_new' = 0
  /\ ti' = 1
  /\ io' = Append(io, "load")
  /\ pc' = NextPc(1)
  /\ UNCHANGED <<stores, results, plan, jobs, new_count, failed, file0, csv0, orphans>>
  /\ UNCHANGED <<call, ret>>

\* load_seen() raises: the error leaves run()
LoadRaises ==
  /\ pc = "load"
  /\ load_seen(seenFile).raised
  /\ ResetLocals
  /\ results' = Append(results, "exception")
  /\ pc' = "crashed"
  /\ UNCHANGED <<stores, file0, csv0, orphans>>
  /\ UNCHANGED <<call, ret>>

\* jobs = fetcher(target); new_count = 0
FetchReturns ==
  /\ pc = "fetch"
  /\ \E resp \in Responses(plan[ti]) :
       /\ ~AdapterRaises(plan[ti], resp)
       /\ jobs' = AdapterRows(plan[ti], resp, Clock)
  /\ new_count' = 0
  /\ io' = Append(io, "fetch")
  /\ pc' = "rows"
  /\ UNCHANGED <<stores, results, plan, ti, seen, total_new, failed, file0, seen0,
                 csv0, orphans>>
  /\ UNCHANGED <<call, ret>>

\* no try around the adapter call: the error leaves run()
FetchRaises_uncaught ==
  /\ pc = "fetch"
  /\ \E resp \in Responses(plan[ti]) : AdapterRaises(plan[ti], resp)
  /\ failed' = failed \cup {ti}
  /\ io' = Append(io, "fetch")
  /\ results' = Append(results, "exception")
  /\ pc' = "crashed"
  /\ UNCHANGED <<stores, plan, ti, jobs, seen, total_new, new_count, file0,
                 seen0, csv0, orphans>>
  /\ UNCHANGED <<call, ret>>

\* the adapter raises: except Exception, [WARN], continue
FetchRaises ==
  /\ pc = "fetch"
  /\ \E resp \in Responses(plan[ti]) : AdapterRaises(plan[ti], resp)
  /\ failed' = failed \cup {ti}
  /\ io' = Append(io, "fetch")
  /\ ti' = ti + 1
  /\ pc' = NextPc(ti + 1)
  /\ UNCHANGED <<stores, results, plan, jobs, seen, total_new, new_count, file0,
                 seen0, csv0, orphans>>
  /\ UNCHANGED <<call, ret>>

\* for j in jobs: if key in seen: continue
Skip ==
  /\ pc = "rows"
  /\ jobs # <<>>
  /\ Key(Head(jobs)) \in seen
  /\ jobs' = Tail(jobs)
  /\ UNCHANGED <<stores, results, pc, plan, ti, seen, total_new, new_count, failed,
                 io, file0, seen0, csv0, orphans>>
  /\ UNCHANGED <<call, ret>>

\* seen = {key}: the keys known before are dropped
Mark_forgetting ==
  /\ pc = "rows"
  /\ jobs # <<>>
  /\ Key(Head(jobs)) \notin seen
  /\ seen' = {Key(Head(jobs))}
  /\ pc' = "append"
  /\ UNCHANGED <<stores, results, plan, ti, jobs, total_new, new_count, failed, io,
                 file0, seen0, csv0, orphans>>
  /\ UNCHANGED <<call, ret>>

\* the Seen Set persisted at every addition
Mark_persisting ==
  /\ pc = "rows"
  /\ jobs # <<>>
  /\ Key(Head(jobs)) \notin seen
  /\ seen' = seen \cup {Key(Head(jobs))}
  /\ seenFile' = save_seen_dump(seen')
  /\ pc' = "append"
  /\ UNCHANGED <<cfgFile, csv, results, plan, ti, jobs, total_new, new_count, failed,
                 io, file0, seen0, csv0, orphans>>
  /\ UNCHANGED <<call, ret>>

\* seen.add(key)
Mark ==
  /\ pc = "rows"
  /\ jobs # <<>>
  /\ Key(Head(jobs)) \notin seen
  /\ seen' = seen \cup {Key(Head(jobs))}
  /\ pc' = "append"
  /\ UNCHANGED <<stores, results, plan, ti, jobs, total_new, new_count, failed, io,
                 file0, seen0, csv0, orphans>>
  /\ UNCHANGED <<call, ret>>

\* append_csv(j); total_new += 1; new_count += 1; [NEW]
AppendRow ==
  /\ pc = "append"
  /\ csv' = append_csv(csv, Head(jobs))
  /\ total_new' = total_new + 1
  /\ new_count' = new_count + 1
  /\ jobs' = Tail(jobs)
  /\ pc' = "rows"
  /\ UNCHANGED <<cfgFile, seenFile, results, plan, ti, seen, failed, io, file0,
                 seen0, csv0, orphans>>
  /\ UNCHANGED <<call, ret>>

\* the rows of the target are done: [SUMMARY], next target
Summary ==
  /\ pc = "rows"
  /\ jobs = <<>>
  /\ ti' = ti + 1
  /\ pc' = NextPc(ti + 1)
  /\ UNCHANGED <<stores, results, plan, jobs, seen, total_new, new_count, failed,
                 io, file0, seen0, csv0, orphans>>
  /\ UNCHANGED <<call, ret>>

\* save_seen(seen): open(SEEN_PATH, "w")
SaveOpen ==
  /\ pc = "save"
  /\ seenFile' = save_seen_open(seenFile)
  /\ io' = Append(io, "open_w")
  /\ pc' = "write"
  /\ UNCHANGED <<cfgFile, csv, results, plan, ti, jobs, seen, total_new, new_count,
                 failed, file0, seen0, csv0, orphans>>
  /\ UNCHANGED <<call, ret>>

\* json.dump(...), the file is closed; "Done."; return 0
SaveDump ==
  /\ pc = "write"
  /\ seenFile' = save_seen_dump(seen)
  /\ io' = Append(io, "dump")
  /\ results' = Append(results, "ok")
  /\ pc' = "done"
  /\ UNCHANGED <<cfgFile, csv, plan, ti, jobs, seen, total_new, new_count, failed,
                 file0, seen0, csv0, orphans>>
  /\ UNCHANGED <<call, ret>>

\* the process dies where it stands: it is killed, the machine stops, or a
\* write raises (append_csv or save_seen on a full disk) and nothing in
\* run() catches it.  Memory is lost, the files stay as they are.
Crash ==
  /\ Running
  /\ ResetLocals
  /\ results' = Append(results, "killed")
  /\ pc' = "crashed"
  /\ UNCHANGED <<stores, file0, csv0, orphans>>
  /\ UNCHANGED <<call, ret>>

Next ==
  \/ StartNoConfig
  \/ StartRun
  \/ Load
  \/ LoadRaises
  \/ FetchReturns
  \/ FetchRaises
  \/ Skip
  \/ Mark
  \/ AppendRow
  \/ Summary
  \/ SaveOpen
  \/ SaveDump
  \/ Crash

Spec == Init /\ [][Next]_vars

(***************************************************************************)
(* The functions of utils.py called on their own, on arguments drawn from  *)
(* bounded sets: nothing of run() moves.                                   *)
(***************************************************************************)
MaxUrlLen == 4

\* the strings of at most n characters of chars
Strings(chars, n) == UNION {[1..k -> chars] : k \in 0..n}

UrlChars == {"h", ":", "/", "?", "#", ";", "a", "["}

\* http(s)://x with a path, a query string and a fragment or without
SampleUrls ==
  {sch \o <<":", "/", "/", "x">> \o path \o q \o f :
     sch \in {http, https},
     path \in {<<>>, <<"/">>, <<"/", "1">>},
     q \in {<<>>, <<"?">>, <<"?", "u">>},
     f \in {<<>>, <<"#">>, <<"#", "a">>}}

UrlInputs == Strings(UrlChars, MaxUrlLen) \cup SampleUrls

MaxEdge == 1

\* texts: None, and a word that is music or nearly, in some letter case,
\* with up to MaxEdge characters before it and after it, and some phrases
Cores == {<<>>, music, <<"M", "u", "s", "i", "c">>, <<"M", "U", "S", "I", "C">>,
          <<"m", "u", "S", "i", "C">>, <<"m", "u", "s", "i">>,
          <<"u", "s", "i", "c">>, <<"m", "u", "s", "a", "c">>}
EdgeChars == {" ", "-", "_", "1", "a", "M"}

MusicallyInclined ==
  <<"m", "u", "s", "i", "c", "a", "l", "l", "y", " ",
    "i", "n", "c", "l", "i", "n", "e", "d">>
MusicDirector ==
  <<"M", "u", "s", "i", "c", " ", "D", "i", "r", "e", "c", "t", "o", "r">>
MusicalMusic ==
  <<"m", "u", "s", "i", "c", "a", "l", " ", "m", "u", "s", "i", "c">>

Texts ==
  {None, MusicallyInclined, MusicDirector, MusicalMusic}
  \cup {pre \o core \o post : pre \in Strings(EdgeChars, MaxEdge),
                              core \in Cores,
                              post \in Strings(EdgeChars, MaxEdge)}

\* a value, "" or None
Optional(v) == {None, <<>>, v}

\* the arguments of mk_row, in the order of its parameters; company and
\* platform are the target's, the others may be missing
RowArgs ==
  {<<slugA, lever, title, location, job_id, url, posted_at, matched_on>> :
     title \in Optional(<<"t">>),
     location \in Optional(<<"l">>),
     job_id \in Optional(<<"1">>),
     url \in Optional(Url1u) \cup {Url1},
     posted_at \in Optional(<<"2">>),
     matched_on \in {None, html_text}}

Calls ==
  {Call("_normalize_url", <<u>>) : u \in UrlInputs}
  \cup {Call("job_matches_music", <<t>>) : t \in Texts}
  \cup {Call("mk_row", a) : a \in RowArgs}
  \cup {Call("append_csv", <<u>>) : u \in UrlInputs}

FnInit ==
  /\ cfgFile = [exists |-> FALSE, cfg |-> <<>>]
  /\ seenFile = FileOf("missing", <<>>)
  /\ csv = NoCsv
  /\ results = <<>>
  /\ pc = "idle"
  /\ plan = <<>>
  /\ ti = 0
  /\ jobs = <<>>
  /\ seen = {}
  /\ total_new = 0
  /\ new_count = 0
  /\ failed = {}
  /\ io = <<>>
  /\ file0 = seenFile
  /\ seen0 = {}
  /\ csv0 = csv
  /\ orphans = {}
  /\ call \in Calls
  /\ ret = <<>>

\* _normalize_url(u), and then _normalize_url of what that returned
CallNormalizeUrl ==
  /\ call.fn = "_normalize_url"
  /\ Len(ret) < 2
  /\ ret' = Append(ret, _normalize_url(IF ret = <<>> THEN call.args[1]
                                      ELSE ret[Len(ret)]))
  /\ UNCHANGED <<program, call>>

\* job_matches_music(text)
CallJobMatchesMusic ==
  /\ call.fn = "job_matches_music"
  /\ ret = <<>>
  /\ ret' = <<job_matches_music(call.args[1])>>
  /\ UNCHANGED <<program, call>>

\* mk_row(company, platform, title, location, job_id, url, posted_at,
\* matched_on)
CallMkRow ==
  /\ call.fn = "mk_row"
  /\ ret = <<>>
  /\ ret' = <<mk_row(call.args[1], call.args[2], call.args[3], call.args[4],
                     call.args[5], call.args[6], call.args[7], call.args[8],
                     Clock)>>
  /\ UNCHANGED <<program, call>>

\* append_csv(j) where there is no Sink yet, for the row j that fetch_lever
\* builds with mk_row for a matching posting of lever:a whose link is the
\* argument; ret holds j and the Sink after the call
CallAppendCsv ==
  /\ call.fn = "append_csv"
  /\ ret = <<>>
  /\ LET j == fetch_slug(lever, slugA,
                         <<Post(<<"t">>, <<"1">>, call.args[1])>>, Clock)[1]
     IN  ret' = <<j, append_csv(NoCsv, j)>>
  /\ UNCHANGED <<program, call>>

FnNext ==
  \/ CallNormalizeUrl
  \/ CallJobMatchesMusic
  \/ CallMkRow
  \/ CallAppendCsv

FnSpec == FnInit /\ [][FnNext]_vars

(***************************************************************************)
(* Properties.                                                             *)
(***************************************************************************)
AllOk == \A i \in DOMAIN results : results[i] = "ok"

DistinctKeys(recs) ==
  \A m, n \in DOMAIN recs : m # n => RecKey(recs[m]) # RecKey(recs[n])

Last(q) == q[Len(q)]

Count(q, e) == Cardinality({i \in DOMAIN q : q[i] = e})

\* C1: as long as every run has completed normally (save_seen reached,
\* return 0), no identity key occurs twice among the records of the Sink,
\* and a run appends no row whose key was in the Seen Set it loaded.
C1_AtMostOnceAcrossRuns ==
  /\ AllOk => DistinctKeys(csv.recs)
  /\ AppendedKeys \cap seen0 = {}

\* a second run meets a posting whose row an earlier run appended and saved
C1_Witness ==
  /\ AllOk
  /\ Len(results) >= 1
  /\ pc = "rows"
  /\ jobs # <<>>
  /\ Key(Head(jobs)) \in seen0
  /\ \E i \in DOMAIN csv.recs : RecKey(csv.recs[i]) = Key(Head(jobs))

\* C2: a key that this run added to the in-memory Seen Set is the key of a
\* record that this run has already appended to the Sink.
C2_MarkOnlyAfterAppend ==
  (seen \ seen0) \subseteq AppendedKeys

\* C3: a row is appended to the Sink exactly when its key is not in the
\* in-memory Seen Set at the moment it is processed; a skip changes neither
\* the Seen Set nor the Sink; a target is left only when all its rows have
\* been processed.
C3_AppendIffNew ==
  [][/\ (pc = "rows" /\ jobs # <<>> /\ pc' # "crashed") =>
          IF Key(Head(jobs)) \in seen
          THEN /\ seen' = seen /\ csv' = csv /\ seenFile' = seenFile
               /\ jobs' = Tail(jobs) /\ pc' = "rows"
          ELSE /\ pc' = "append" /\ jobs' = jobs /\ csv' = csv
     /\ (pc = "append" /\ pc' # "crashed") =>
          /\ Len(csv'.recs) = (IF csv.recs = <<>> THEN 1 ELSE Len(csv.recs)) + 1
          /\ SubSeq(csv'.recs, 1, Len(csv.recs)) = csv.recs
          /\ RecKey(Last(csv'.recs)) = Key(Head(jobs))
          /\ Last(csv'.recs)[3] = Head(jobs).title
          /\ jobs' = Tail(jobs)
          /\ pc' = "rows"
     /\ (pc = "rows" /\ ti' # ti /\ pc' # "crashed") => jobs = <<>>
    ]_vars

\* a duplicate is about to be skipped in a run that has appended a row
C3_Witness ==
  /\ pc = "rows"
  /\ jobs # <<>>
  /\ Key(Head(jobs)) \in seen
  /\ Len(Appended) >= 1

\* C4: the records one run appends to the Sink have pairwise different
\* identity keys, whatever their titles.
C4_OneRowPerKeyInRun ==
  DistinctKeys(Appended)

\* the second adapter call of a run returns a row with the key of a record
\* this run appended and another title
C4_Witness ==
  /\ pc = "rows"
  /\ ti = 2
  /\ jobs # <<>>
  /\ \E i \in DOMAIN Appended :
       /\ RecKey(Appended[i]) = Key(Head(jobs))
       /\ Appended[i][3] # Head(jobs).title

\* C5: when an adapter call raises, the step changes neither the Seen Set
\* (in memory or stored) nor the Sink nor the count, and the loop goes on
\* with the next target, or to save_seen after the last; a run returns only
\* after every target of its plan was fetched and the Seen Set was saved.
C5_AdapterFailureIsolated ==
  [][/\ failed' # failed /\ failed' # {} =>
          /\ seen' = seen /\ csv' = csv /\ seenFile' = seenFile
          /\ total_new' = total_new
          /\ ti' = ti + 1
          /\ pc' = (IF ti' > Len(plan) THEN "save" ELSE "fetch")
     /\ (pc' = "done" /\ pc = "write") =>
          /\ Count(io', "fetch") = Len(plan)
          /\ Last(io') = "dump"
          /\ StoredKeys(seenFile') = seen
    ]_vars

\* the first target failed, the second one's rows were appended, the Seen
\* Set was saved
C5_Witness ==
  /\ pc = "done"
  /\ failed = {1}
  /\ Len(plan) = 2
  /\ Len(Appended) >= 1
  /\ AppendedKeys \subseteq StoredKeys(seenFile)

\* C6: after a run ended without returning, the stored Seen Set still holds
\* every key it held when the run started.
C6_CrashKeepsOldKeys ==
  pc = "crashed" => StoredKeys(file0) \subseteq StoredKeys(seenFile)

\* C7: load_seen does not raise, and returns the empty set for a missing
\* file, an unreadable file and content that is not a JSON list of keys.
C7_LoadNeverRaises ==
  pc = "load" =>
    /\ ~load_seen(seenFile).raised
    /\ (\/ seenFile.kind # "list"
        \/ \E i \in DOMAIN seenFile.items : seenFile.items[i].t # "str")
         => load_seen(seenFile).seen = {}

\* C8: in a run the stored Seen Set is read once, before any adapter call;
\* it is opened for writing only after the adapter calls of all targets,
\* and a run that returns 0 has written it once, as its last access.
C8_LoadOnceSaveOnce ==
  /\ io # <<>> => io[1] = "load"
  /\ Count(io, "load") <= 1
  /\ Count(io, "open_w") <= 1
  /\ Count(io, "dump") <= 1
  /\ \A i \in DOMAIN io :
       io[i] \in {"open_w", "dump"} =>
         /\ Count(SubSeq(io, 1, i), "fetch") = Len(plan)
         /\ \A n \in (i + 1)..Len(io) : io[n] # "fetch"
  /\ (pc = "done" /\ results # <<>> /\ Last(results) = "ok") =>
       /\ Count(io, "load") = 1
       /\ Count(io, "open_w") = 1
       /\ Count(io, "dump") = 1
       /\ Last(io) = "dump"

\* a run over two targets has returned 0
C8_Witness ==
  /\ pc = "done"
  /\ Last(results) = "ok"
  /\ Len(plan) = 2
  /\ io = <<"load", "fetch", "fetch", "open_w", "dump">>

\* C9: when a run ends without returning, the records it appended stay in
\* the Sink and their keys are not in the stored Seen Set; in the next run
\* a row with such a key, met for the first time in that run, is not in
\* the Seen Set and goes on to be appended.
C9_CrashedRowsReappended ==
  [][/\ pc' = "crashed" =>
          /\ csv' = csv
          /\ (AppendedKeys \cap StoredKeys(seenFile))' = {}
     /\ (/\ pc = "rows" /\ jobs # <<>>
         /\ Key(Head(jobs)) \in orphans
         /\ Key(Head(jobs)) \notin AppendedKeys
         /\ pc' # "crashed") => pc' = "append"
     /\ (pc = "append" /\ pc' # "crashed") =>
          /\ Len(csv'.recs) > Len(csv.recs)
          /\ RecKey(Last(csv'.recs)) = Key(Head(jobs))
    ]_vars

\* the run after a crashed one has appended a row that the crashed run had
\* appended: the Sink holds the key twice
C9_Witness ==
  /\ Len(results) >= 1
  /\ AppendedKeys \cap orphans # {}
  /\ \E m, n \in DOMAIN csv.recs :
       m # n /\ RecKey(csv.recs[m]) = RecKey(csv.recs[n])

C11_NoConfigTouchesNothing ==
  [][(~Running /\ ~cfgFile.exists) =>
        /\ pc' = "done"
        /\ Last(results') = "no_config"
        /\ Len(results') = Len(results) + 1
        /\ io' = <<>>
        /\ plan' = <<>>
        /\ seenFile' = seenFile
        /\ csv' = csv
        /\ cfgFile' = cfgFile
    ]_vars

\* a run has returned 2 next to a stored Seen Set with keys and no Sink file
C11_Witness ==
  /\ pc = "done"
  /\ results # <<>>
  /\ Last(results) = "no_config"
  /\ StoredKeys(seenFile) # {}
  /\ csv = NoCsv
  /\ io = <<>>

\* C12: whatever ordinary failure the upstream of a target answers with (an
\* HTTP error status, a timeout, a body that does not parse), the adapter
\* call does not raise: it returns a list, and the run goes on.
C12_OrdinaryFailureNotRaised ==
  pc = "fetch" =>
    \A resp \in Responses(plan[ti]) :
       resp.kind \in OrdinaryFailures => ~AdapterRaises(plan[ti], resp)

\* the part of a URL before its query string and fragment
BeforeQueryAndFragment(u) ==
  LET cut == {i \in DOMAIN u : u[i] \in {"?", "#"}}
  IN  IF cut = {} THEN u
      ELSE SubSeq(u, 1, (CHOOSE i \in cut : \A k \in cut : i <= k) - 1)

\* C13: the rows an adapter makes of two observations of one posting whose
\* URLs differ only in the query string or the fragment have the same
\* identity key, for every adapter.
C13_TrackingTagsSameKey ==
  pc = "fetch" =>
    \A l \in Listings(plan[ti]) :
       LET rows == AdapterRows(plan[ti], Response("ok", l), Clock)
       IN  \A i, k \in DOMAIN rows :
              (/\ l[i].id = l[k].id
               /\ BeforeQueryAndFragment(l[i].url) = BeforeQueryAndFragment(l[k].url))
              => Key(rows[i]) = Key(rows[k])

\* the names --company can name a target by
TargetNames(t) ==
  IF t.entry.type = "str" THEN {t.entry.slug}
  ELSE {cname(t.entry), t.entry.host}

\* the target is one the filters ask for
Selected(t, pf, cf) ==
  /\ pf = None \/ t.plat = pf
  /\ OrEmpty(cf) = <<>> \/ cf \in TargetNames(t)

Scripts == {"scraper", "music_scraper"}

\* the keys of the rows in the outcomes at the positions I
KeysAt(outs, I) ==
  {Key(outs[i].rows[k]) : <<i, k>> \in
     {ik \in I \X (1..2) : ik[2] \in DOMAIN outs[ik[1]].rows}}

\* the filtered plan is the unfiltered one cut down to the selected targets
PlanIsSelection(script, pf, cf) ==
  LET full == Targets(script, cfgFile.cfg, None, None)
      I == {i \in DOMAIN full : Selected(full[i], pf, cf)}
  IN  Targets(script, cfgFile.cfg, pf, cf) = Pick(full, I)

\* the steps of a run are those of the loops: the plan is what the filters
\* select, the rows are an outcome of the adapter of plan[ti], and a row is
\* skipped or marked as RowLoop says
RunFollowsLoops ==
  /\ (~Running /\ pc' = "load") =>
        \E script \in Scripts, pf \in PlatformFilters, cf \in CompanyFilters :
           plan' = Targets(script, cfgFile.cfg, pf, cf)
  /\ (pc = "fetch" /\ pc' # "crashed") =>
        /\ io' = Append(io, "fetch")
        /\ \E o \in Outcomes(plan[ti], Clock) :
              IF o.raised THEN pc' # "rows" /\ ti' = ti + 1 /\ jobs' = jobs
              ELSE pc' = "rows" /\ jobs' = o.rows
  /\ (pc = "rows" /\ jobs # <<>> /\ pc' # "crashed") =>
        LET r == RowLoop(seen, <<Head(jobs)>>)
        IN  /\ seen' = r.seen
            /\ IF r.new = <<>> THEN pc' = "rows" /\ jobs' = Tail(jobs) /\ csv' = csv
               ELSE pc' = "append" /\ jobs' = jobs
  /\ (pc = "append" /\ pc' # "crashed") =>
        /\ csv' = append_csv(csv, Head(jobs))
        /\ jobs' = Tail(jobs)
        /\ seen' = seen

\* the unfiltered plans and the positions the filters select in them, for
\* the scripts and filters that give the plan of this run
FilterCases ==
  {[full |-> Targets(c[1], cfgFile.cfg, None, None),
    I |-> {i \in DOMAIN Targets(c[1], cfgFile.cfg, None, None) :
             Selected(Targets(c[1], cfgFile.cfg, None, None)[i], c[2], c[3])}] :
     c \in {x \in Scripts \X PlatformFilters \X CompanyFilters :
              plan = Targets(x[1], cfgFile.cfg, x[2], x[3])}}

\* C14, as stated: the filters only cut the plan down, and
\* the rows of a selected target are appended or skipped in the filtered
\* run exactly as in the unfiltered run from the same Seen Set, whatever
\* the adapters return.
C14_FilteredAsUnfiltered ==
  (pc = "load" /\ ~load_seen(seenFile).raised) =>
    \A c \in FilterCases :
       /\ plan = Pick(c.full, c.I)
       /\ \A outs \in PlanOutcomes(c.full, Clock) :
             TargetLoop(load_seen(seenFile).seen, Pick(outs, c.I)).new
               = Pick(TargetLoop(load_seen(seenFile).seen, outs).new, c.I)

\* C14, amended: the filters only cut the plan down to the targets of
\* platform P and of name T; the rows of a selected target are appended or
\* skipped exactly as in the unfiltered run from the same Seen Set whenever
\* no target that the filters leave out returns a row with the identity key
\* of a row of a selected target.
C14_FilteredAsUnfilteredApart ==
  [][/\ RunFollowsLoops
     /\ (pc = "load" /\ pc' # "crashed") =>
          \A script \in Scripts, pf \in PlatformFilters, cf \in CompanyFilters :
             /\ PlanIsSelection(script, pf, cf)
             /\ \A t \in {Targets(script, cfgFile.cfg, pf, cf)[i] :
                           i \in DOMAIN Targets(script, cfgFile.cfg, pf, cf)} :
                   /\ pf # None => t.plat = pf
                   /\ OrEmpty(cf) # <<>> => cf \in TargetNames(t)
     /\ (pc = "load" /\ pc' # "crashed") =>
          \A c \in FilterCases :
             \A outs \in PlanOutcomes(c.full, Clock) :
                KeysAt(outs, c.I) \cap KeysAt(outs, DOMAIN c.full \ c.I) = {}
                => TargetLoop(load_seen(seenFile).seen, Pick(outs, c.I)).new
                     = Pick(TargetLoop(load_seen(seenFile).seen, outs).new, c.I)
    ]_vars

\* a run with --company b over lever: [a, b] has fetched lever:b only and
\* appended its row
C14_Witness ==
  /\ pc = "done"
  /\ results # <<>>
  /\ Last(results) = "ok"
  /\ Len(Targets("scraper", cfgFile.cfg, None, None)) = 2
  /\ plan = Targets("scraper", cfgFile.cfg, None, slugB)
  /\ Len(plan) = 1
  /\ Count(io, "fetch") = 1
  /\ AppendedKeys = {K2}

\* C15: the Sink is append-only.  A step changes music_jobs.csv only by
\* append_csv, which adds exactly one record after the ones there; the
\* header is written, before that record, only when the file is absent or
\* empty; no record (the header included) is ever changed or removed and
\* the number of records never decreases.
C15_SinkAppendOnly ==
  [][/\ csv.exists => csv'.exists
     /\ Len(csv'.recs) >= Len(csv.recs)
     /\ SubSeq(csv'.recs, 1, Len(csv.recs)) = csv.recs
     /\ csv' # csv =>
          /\ pc = "append"
          /\ csv'.recs[Len(csv'.recs)] # CSV_HEADERS
          /\ IF ~csv.exists \/ csv.recs = <<>>
             THEN Len(csv'.recs) = 2 /\ csv'.recs[1] = CSV_HEADERS
             ELSE Len(csv'.recs) = Len(csv.recs) + 1
    ]_vars

\* a later run has appended a record to a Sink that held the header and a
\* record of an earlier run
C15_Witness ==
  /\ Len(results) >= 1
  /\ Len(csv0.recs) >= 2
  /\ Len(csv.recs) = Len(csv0.recs) + 1
  /\ csv.recs[1] = CSV_HEADERS
  /\ SubSeq(csv.recs, 1, Len(csv0.recs)) = csv0.recs

\* C16: _normalize_url(u) is "" for the empty u and u itself when urlparse
\* fails; otherwise it has no query string and no fragment and the
\* scheme, host and path of u; and normalizing its result again returns
\* that result.
C16_NormalizeUrl ==
  (call.fn = "_normalize_url" /\ ret # <<>>) =>
    LET u == call.args[1]
        p == urlparse(u)
        q == urlparse(ret[1])
    IN  /\ u = <<>> => ret[1] = <<>>
        /\ ~p.ok => ret[1] = u
        /\ p.ok =>
              /\ ~Contains(ret[1], "?")
              /\ ~Contains(ret[1], "#")
              /\ q.scheme = p.scheme
              /\ q.netloc = p.netloc
              /\ q.path = p.path
        /\ Len(ret) = 2 => ret[2] = ret[1]

\* the text holds the letters m, u, s, i, c, each in either case, in a row,
\* with no word character right before them and none right after
HasWordMusic(text) ==
  \E n \in 0..Len(text) :
     LET pre == SubSeq(text, 1, n)
         w == SubSeq(text, n + 1, n + 5)
         post == SubSeq(text, n + 6, Len(text))
     IN  /\ n + 5 <= Len(text)
         /\ [k \in 1..5 |-> Lower(w[k])] = music
         /\ pre = <<>> \/ pre[Len(pre)] \notin WordChars
         /\ post = <<>> \/ post[1] \notin WordChars

\* C17: job_matches_music(text) is true exactly when text holds "music",
\* in any letter case, as a whole word; it is false for "musically
\* inclined", for "" and for None; and the call leaves the Seen Set, the
\* Sink and the state of the program alone.
C17_MatchesWholeWordMusic ==
  (call.fn = "job_matches_music" /\ ret # <<>>) =>
    /\ ret[1] = (call.args[1] # None /\ HasWordMusic(call.args[1]))
    /\ call.args[1] \in {MusicallyInclined, <<>>, None} => ret[1] = FALSE
    /\ seenFile = FileOf("missing", <<>>)
    /\ csv = NoCsv
    /\ pc = "idle"

\* the call on "musical music" has returned True: the first occurrence is
\* no whole word, the second is
C17_Witness ==
  /\ call = Call("job_matches_music", <<MusicalMusic>>)
  /\ ret = <<TRUE>>

\* C18: mk_row returns a row whatever is missing, with no None in it: a
\* title, location, job_id or posted_at that is None or "" is "" in the
\* row and one that is given is itself, url is _normalize_url of the url
\* given ("" when missing), and detected_on_iso is not empty.
C18_MkRowNoNull ==
  (call.fn = "mk_row" /\ ret # <<>>) =>
    LET a == call.args
        row == ret[1]
        Given(x) == IF x \in {None, <<>>} THEN <<>> ELSE x
    IN  /\ DOMAIN row = {"company", "platform", "title", "location", "job_id",
                         "url", "posted_at_iso", "detected_on_iso", "matched_on"}
        /\ \A f \in DOMAIN row : row[f] # None
        /\ row.company = a[1]
        /\ row.platform = a[2]
        /\ row.title = Given(a[3])
        /\ row.location = Given(a[4])
        /\ row.job_id = Given(a[5])
        /\ row.url = _normalize_url(Given(a[6]))
        /\ ~Contains(row.url, "?")
        /\ row.posted_at_iso = Given(a[7])
        /\ row.detected_on_iso # <<>>
        /\ row.matched_on # <<>>

\* a row made with no title, no job_id and no posted_at, of a url with a
\* query string
C18_Witness ==
  /\ call.fn = "mk_row"
  /\ ret # <<>>
  /\ call.args[3] = None
  /\ call.args[5] = None
  /\ call.args[7] = <<>>
  /\ call.args[6] = Url1u
  /\ ret[1].title = <<>>
  /\ ret[1].job_id = <<>>
  /\ ret[1].posted_at_iso = <<>>
  /\ ret[1].url = Url1

\* the keys of the rows a target can give
PossibleKeys(t) ==
  LET rows == Fetch(t, Board(t), Clock)
  IN  {Key(rows[i]) : i \in DOMAIN rows}

\* C19, as stated: the rows of two distinct targets of a run
\* never have the same identity key (looked at when the run has its plan).
C19_DistinctTargetsDistinctKeys ==
  pc = "load" =>
    \A i, k \in DOMAIN plan :
       plan[i] # plan[k] => PossibleKeys(plan[i]) \cap PossibleKeys(plan[k]) = {}

\* C19, amended: the rows of two targets that differ in platform or in
\* the company name of their rows (names without ":") never have the same
\* identity key; a row that is skipped for a key marked in this run is
\* skipped for a record of its own platform and company.
C19_OtherCompanyOtherKey ==
  /\ pc = "load" =>
       \A i, k \in DOMAIN plan :
          (/\ \/ plan[i].plat # plan[k].plat
              \/ RowCompany(plan[i]) # RowCompany(plan[k])
           /\ \A t \in {plan[i], plan[k]} :
                 ~Contains(t.plat, ":") /\ ~Contains(RowCompany(t), ":"))
          => PossibleKeys(plan[i]) \cap PossibleKeys(plan[k]) = {}
  /\ (pc = "rows" /\ jobs # <<>> /\ Key(Head(jobs)) \in seen \ seen0) =>
       \E n \in DOMAIN Appended :
          /\ RecKey(Appended[n]) = Key(Head(jobs))
          /\ Appended[n][2] = plan[ti].plat
          /\ Appended[n][1] = RowCompany(plan[ti])

\* lever:a and greenhouse:a have shown the same posting, id and link, and
\* the run has appended a record for each
C19_Witness ==
  /\ pc = "done"
  /\ Len(plan) = 2
  /\ plan[1].plat # plan[2].plat
  /\ \E m, n \in DOMAIN Appended :
        /\ Appended[m][2] = lever
        /\ Appended[n][2] = greenhouse
        /\ Appended[m][1] = Appended[n][1]
        /\ Appended[m][5] = Appended[n][5]
        /\ Appended[m][6] = Appended[n][6]

\* the orders of n targets
Orders(n) == {f \in [1..n -> 1..n] : \A i, k \in 1..n : f[i] = f[k] => i = k}

\* the rows appended in a run, whatever their target
RowsOf(new) == {Flat(new)[i] : i \in DOMAIN Flat(new)}

\* the run that ends has done what TargetLoop says for some outcomes of
\* its adapter calls: the Seen Set it saves and the keys it appended
EndsAsTargetLoop ==
  (pc = "write" /\ pc' = "done") =>
    /\ seenFile' = save_seen_dump(seen)
    /\ \E outs \in PlanOutcomes(plan, Clock) :
          LET r == TargetLoop(seen0, outs)
          IN  /\ r.seen = seen
              /\ [i \in DOMAIN Flat(r.new) |-> Key(Flat(r.new)[i])]
                   = [i \in DOMAIN Appended |-> RecKey(Appended[i])]

\* C20, as stated: for the Seen Set loaded and any outcomes of
\* the adapter calls, every order of the targets ends with the same Seen
\* Set and the same set of appended rows.
C20_OrderIndependent ==
  (pc = "load" /\ ~load_seen(seenFile).raised) =>
    \A outs \in PlanOutcomes(plan, Clock) :
       \A f \in Orders(Len(plan)) :
          LET S == load_seen(seenFile).seen
              r == TargetLoop(S, outs)
              q == TargetLoop(S, [i \in DOMAIN outs |-> outs[f[i]]])
          IN  q.seen = r.seen /\ RowsOf(q.new) = RowsOf(r.new)

\* C20, amended: for the Seen Set loaded and any outcomes of the adapter
\* calls, every order of the targets ends with the same persisted Seen Set
\* and the same identity keys appended; the appended rows are the same
\* too when no two targets return rows of one key that differ.
C20_OrderIndependentKeys ==
  [][/\ RunFollowsLoops
     /\ EndsAsTargetLoop
     /\ (pc = "load" /\ pc' # "crashed") =>
          \A outs \in PlanOutcomes(plan, Clock) :
             \A f \in Orders(Len(plan)) :
                LET S == load_seen(seenFile).seen
                    r == TargetLoop(S, outs)
                    q == TargetLoop(S, [i \in DOMAIN outs |-> outs[f[i]]])
                    all == UNION {{outs[i].rows[k] : k \in DOMAIN outs[i].rows} :
                                    i \in DOMAIN outs}
                IN  /\ q.seen = r.seen
                    /\ {Key(j) : j \in RowsOf(q.new)} = {Key(j) : j \in RowsOf(r.new)}
                    /\ (\A j, k \in all : Key(j) = Key(k) => j = k)
                         => RowsOf(q.new) = RowsOf(r.new)
    ]_vars

\* a run over lever: [a, b] has appended a row of each target and saved
\* both keys
C20_Witness ==
  /\ pc = "done"
  /\ results # <<>>
  /\ Last(results) = "ok"
  /\ Len(plan) = 2
  /\ AppendedKeys = {K1, K2}
  /\ seen0 = {}
  /\ StoredKeys(seenFile) = {K1, K2}

\* C21: in every row of an adapter that has no platform id and takes the
\* posting's link for job_id (fetch_adp), the job_id is the link without
\* query string and fragment: it equals the row's url, in the row, in its
\* identity key and in the record of the Sink.
C21_FallbackIdIsCanonicalUrl ==
  /\ \A i \in DOMAIN jobs :
        jobs[i].platform = adp =>
          /\ jobs[i].job_id = jobs[i].url
          /\ Key(jobs[i]) = adp \o Sep \o jobs[i].company \o Sep \o jobs[i].url
                              \o Sep \o jobs[i].url
  /\ \A i \in DOMAIN Appended :
        Appended[i][2] = adp => Appended[i][5] = Appended[i][6]

\* C22: for a row built by mk_row, the url in the identity key that run()
\* tests and adds to the Seen Set is the url that append_csv writes for the
\* row: the record's url column is the row's url, and the key read from
\* the record's columns is the key of the row.
C22_KeyUrlIsSinkUrl ==
  (call.fn = "append_csv" /\ ret # <<>>) =>
    LET j == ret[1]
        rec == Last(ret[2].recs)
    IN  /\ rec[6] = j.url
        /\ RecKey(rec) = Key(j)

\* C23: from load_seen to the return of a run, no step takes a key out of
\* the in-memory Seen Set; when the run returns 0, the Seen Set it has
\* stored is the set it loaded together with the identity keys of the
\* records it appended to the Sink, every appended record has a key of its
\* own that was not loaded, and total_new is the number of records
\* appended and the number of keys added.
C23_SeenGrowsAndIsSaved ==
  [][/\ (pc \in {"fetch", "rows", "append", "save", "write"} /\ pc' # "crashed")
          => seen \subseteq seen'
     /\ (pc = "load" /\ pc' # "crashed") => seen' = load_seen(seenFile).seen
     /\ (pc = "write" /\ pc' = "done") =>
          /\ Last(results') = "ok"
          /\ seen0 = load_seen(file0).seen
          /\ StoredKeys(seenFile') = seen0 \cup AppendedKeys
          /\ AppendedKeys \cap seen0 = {}
          /\ Cardinality(AppendedKeys) = Len(Appended)
          /\ total_new = Len(Appended)
          /\ total_new = Cardinality(seen \ seen0)
    ]_vars

\* a run that loaded two keys has appended two rows and returned 0
C23_Witness ==
  /\ pc = "done"
  /\ results # <<>>
  /\ Last(results) = "ok"
  /\ seen0 = {K1, K2}
  /\ total_new = 2
  /\ Len(Appended) = 2
  /\ Cardinality(StoredKeys(seenFile)) = 4

=============================================================================
